---- MODULE Spec2Model ----
(***************************************************************************)
(* Model of glyph_pdf.Glyph (packages/python/glyph_pdf/__init__.py): the   *)
(* client's three operations, the request primitive _request with its      *)
(* try/except dispatch, and the HTTP exchange it blocks on.                 *)
(*                                                                         *)
(* A Python str is a sequence of one-character strings (multi-character    *)
(* literals of the source such as "v1" are kept as one slash-free chunk).  *)
(* An Optional argument is a record [none |-> TRUE] or                     *)
(* [none |-> FALSE, v |-> value].                                          *)
(***************************************************************************)
EXTENDS Integers, Sequences, FiniteSets, TLC

\* ------------------------------------------------------------ bounds
\* Number of operations invoked on the client in one behaviour.
MaxCalls == 2
\* Longest template_id / category drawn as an argument.
MaxLen == 2
\* Most trailing slashes on the base_url handed to the constructor.
MaxSlashes == 2

VARIABLES
    arg_base_url,   \* the base_url argument the constructor was given
    base_url,       \* self._base_url
    api_key,        \* self._api_key
    pc,             \* position of the caller: "idle", "urlopen" (blocked), "done"
    op,             \* operation being executed
    args,           \* its arguments
    req,            \* the urllib Request handed to urlopen
    exchange,       \* the HTTP exchange as the transport carried it out
    outcome,        \* how the call ended: returned value or raised exception
    calls,          \* operations invoked so far
    requests,       \* urlopen invocations so far
    unbuilt         \* calls that raised before reaching urlopen

vars == <<arg_base_url, base_url, api_key, pc, op, args, req, exchange, outcome,
          calls, requests, unbuilt>>

\* ------------------------------------------------------------ Optional
None == [none |-> TRUE]
Some(x) == [none |-> FALSE, v |-> x]

\* `if x:` in place of `if x is not None:` (truthiness of the value)
IsTruthy(x) ==
    /\ ~x.none
    /\ CASE x.v.t = "str" -> x.v.s # <<>>
         [] x.v.t = "int" -> x.v.n # 0
         [] x.v.t = "dict" -> x.v.items # <<>>

\* `x is not None`
IsNotNone(x) == ~x.none

\* ------------------------------------------------------------ Python values
PyStr(s) == [t |-> "str", s |-> s]
PyInt(n) == [t |-> "int", n |-> n]
\* a dict, abstracted to its items [k |-> key, vt |-> type of the value]
PyDict(items) == [t |-> "dict", items |-> items]

\* ------------------------------------------------------------ str helpers
RECURSIVE Rstrip(_, _)
\* str.rstrip(ch): drop every trailing occurrence of ch
Rstrip(s, ch) ==
    IF s # <<>> /\ s[Len(s)] = ch THEN Rstrip(SubSeq(s, 1, Len(s) - 1), ch) ELSE s

RECURSIVE Flatten(_)
Flatten(ss) == IF ss = <<>> THEN <<>> ELSE Head(ss) \o Flatten(Tail(ss))

\* characters urllib.parse.quote never escapes (letters, digits, "_.-~")
AlwaysSafe == {"a", "b", "1", "_", ".", "-", "~"}

\* "%XX" for the characters the arguments are drawn from
PercentEscape(c) ==
    CASE c = " " -> <<"%", "2", "0">>
      [] c = "/" -> <<"%", "2", "F">>
      [] c = "%" -> <<"%", "2", "5">>
      [] OTHER -> <<"%", "X", "X">>

\* urllib.parse.quote(s, safe): the default safe set is "/"
QuoteWith(s, safe) ==
    Flatten([i \in 1..Len(s) |->
        IF s[i] \in AlwaysSafe \cup safe THEN <<s[i]>> ELSE PercentEscape(s[i])])

QuoteSafeSlash(s) == QuoteWith(s, {"/"})

\* urllib.parse.quote(template_id, safe="")
Quote(s) == QuoteWith(s, {})

\* urllib.parse.quote_plus(s): quote with " " kept, then " " -> "+"
QuotePlus(s) ==
    LET q == QuoteWith(s, {" "})
    IN  [i \in 1..Len(q) |-> IF q[i] = " " THEN "+" ELSE q[i]]

\* urllib.parse.urlencode({"category": category})
Urlencode(category) == <<"category", "=">> \o QuotePlus(category)

\* ------------------------------------------------------------ JSON
\* types json.dumps can encode
JsonTypes == {"str", "int", "dict", "list", "bool", "NoneType"}

\* json.dumps raises TypeError on a value of any other type
Serializable(val) ==
    /\ val.t \in JsonTypes
    /\ val.t = "dict" => \A i \in 1..Len(val.items) : val.items[i].vt \in JsonTypes

\* json.dumps of one value: the JSON text, as a sequence of tokens
DumpsValue(val) ==
    CASE val.t = "str" -> <<"\"">> \o val.s \o <<"\"">>
      [] val.t = "int" -> <<ToString(val.n)>>
      [] val.t = "dict" ->
            <<"{">> \o [i \in 1..Len(val.items) |-> val.items[i].k] \o <<"}">>
      [] val.t = "NoneType" -> <<"null">>

\* json.dumps(body): the JSON object sent, key -> JSON text of its value
Dumps(body) == [k \in DOMAIN body |-> DumpsValue(body[k])]

EmptyFcn == [k \in {} |-> ""]

\* a decoded JSON document
JObject(f) == [t |-> "object", f |-> f, items |-> <<>>]
JArray(items) == [t |-> "array", f |-> EmptyFcn, items |-> items]
JNull == [t |-> "null", f |-> EmptyFcn, items |-> <<>>]

\* dict.get(key, default); only a dict has .get
HasGet(val) == val.t = "object"
Get(val, key, default) == IF key \in DOMAIN val.f THEN val.f[key] ELSE default

\* ------------------------------------------------------------ exceptions
\* the base class of each exception class involved
Parent(c) ==
    CASE c = "HTTPError" -> "URLError"
      [] c = "URLError" -> "OSError"
      [] c = "ConnectionResetError" -> "OSError"
      [] c = "IncompleteRead" -> "Exception"
      [] c = "JSONDecodeError" -> "ValueError"
      [] c = "ValueError" -> "Exception"
      [] c = "AttributeError" -> "Exception"
      [] c = "TypeError" -> "Exception"
      [] c = "KeyError" -> "Exception"
      [] c = "GlyphError" -> "Exception"
      [] c = "OSError" -> "Exception"
      [] OTHER -> "BaseException"

RECURSIVE IsSubclass(_, _)
\* issubclass(c, d)
IsSubclass(c, d) ==
    \/ c = d
    \/ c # "BaseException" /\ IsSubclass(Parent(c), d)

\* ------------------------------------------------------------ outcomes
NoOutcome ==
    [kind |-> "none", exc |-> "none", status |-> -1, code |-> "", message |-> "",
     value |-> JNull]

Return(val) == [NoOutcome EXCEPT !.kind = "return", !.value = val]

Raise(exc) == [NoOutcome EXCEPT !.kind = "raise", !.exc = exc]

\* raise GlyphError(message, status, code)
RaiseGlyphError(message, status, code) ==
    [NoOutcome EXCEPT !.kind = "raise", !.exc = "GlyphError",
                      !.status = status, !.code = code, !.message = message]

\* ------------------------------------------------------------ Glyph.__init__
\* base_url taken as given
KeepBase(b) == b

\* base_url.rstrip("/")
StripBase(b) == Rstrip(b, "/")

\* ------------------------------------------------------------ Glyph.create
Put(d, k, val) == [x \in DOMAIN d \cup {k} |-> IF x = k THEN val ELSE d[x]]

\* the body dict assembled by create
CreateBody(a) ==
    LET b0 == [k \in {"format"} |-> a.format]
        b1 == IF IsNotNone(a.data) THEN Put(b0, "data", a.data.v) ELSE b0
        b2 == IF IsNotNone(a.html) THEN Put(b1, "html", a.html.v) ELSE b1
        b3 == IF IsNotNone(a.url) THEN Put(b2, "url", a.url.v) ELSE b2
        b4 == IF IsNotNone(a.template_id) THEN Put(b3, "templateId", a.template_id.v) ELSE b3
        b5 == IF IsNotNone(a.intent) THEN Put(b4, "intent", a.intent.v) ELSE b4
        b6 == IF IsNotNone(a.style) THEN Put(b5, "style", a.style.v) ELSE b5
        b7 == IF IsNotNone(a.options) THEN Put(b6, "options", a.options.v) ELSE b6
        b8 == IF IsNotNone(a.ttl) THEN Put(b7, "ttl", a.ttl.v) ELSE b7
    IN  b8

CreatePath == <<"/", "v1", "/", "create">>

\* ------------------------------------------------------------ Glyph.templates
TemplatesPath(category) ==
    LET path == <<"/", "v1", "/", "templates">>
    IN  IF IsNotNone(category) THEN path \o <<"?">> \o Urlencode(category.v.s) ELSE path

\* result["templates"]: KeyError when the key is missing
TemplatesIndex(r) ==
    IF r.kind # "return" THEN r
    ELSE IF ~HasGet(r.value) THEN Raise("TypeError")
    ELSE IF "templates" \in DOMAIN r.value.f THEN Return(r.value.f["templates"])
    ELSE Raise("KeyError")

\* result.get("templates", []) applied to what _request returned
TemplatesResult(r) ==
    IF r.kind # "return" THEN r
    ELSE IF ~HasGet(r.value) THEN Raise("AttributeError")
    ELSE Return(Get(r.value, "templates", JArray(<<>>)))

\* ------------------------------------------------------------ Glyph.template_schema
SchemaPath(template_id) ==
    <<"/", "v1", "/", "templates", "/">> \o Quote(template_id) \o <<"/", "schema">>

\* ------------------------------------------------------------ Glyph._request
NoRequest == [method |-> "", url |-> <<>>, data |-> None, headers |-> EmptyFcn]

\* lines 101-111: url, headers, data_bytes and the Request object
BuildRequest(method, path, body) ==
    [method |-> method,
     url |-> base_url \o path,
     data |-> IF ~body.none THEN Some(Dumps(body.v)) ELSE None,
     headers |-> [h \in {"Authorization", "Content-Type", "Accept"} |->
                    IF h = "Authorization" THEN <<"Bearer ", api_key>>
                    ELSE <<"application/json">>]]

\* json.dumps(body) succeeds
BodySerializable(body) == \A k \in DOMAIN body : Serializable(body[k])

Is2xx(status) == 200 <= status /\ status < 300

\* resp.read() / exc.read(): the bytes arrive, or the connection breaks
ReadFails(raw) == raw.read = "fail"

\* json.loads(bytes.decode("utf-8")) raises (JSONDecodeError / UnicodeDecodeError)
LoadsFails(raw) == raw.text = "garbage"

\* a success body that fails to parse is replaced by {}
SuccessBodyLenient(x) ==
    IF ReadFails(x.raw) THEN Raise("IncompleteRead")
    ELSE IF LoadsFails(x.raw) THEN Return(JObject(EmptyFcn))
    ELSE Return(x.raw.val)

\* line 115: json.loads(resp.read().decode("utf-8"))
SuccessBody(x) ==
    IF ReadFails(x.raw) THEN Raise("IncompleteRead")
    ELSE IF LoadsFails(x.raw) THEN Raise("JSONDecodeError")
    ELSE Return(x.raw.val)

\* lines 114-115, the try body: what urlopen and the parse return or raise.
\* urlopen wraps a failure to connect or send in URLError, raises HTTPError for
\* a status outside 2xx, and lets a failure while the response is received
\* through as the OSError it is.
TryBody(x) ==
    CASE x.phase = "connect" -> Raise("URLError")
      [] x.phase = "recv" -> Raise("ConnectionResetError")
      [] x.phase = "response" /\ ~Is2xx(x.status) -> Raise("HTTPError")
      [] x.phase = "response" /\ Is2xx(x.status) -> SuccessBody(x)

\* lines 117-120: the error body, {} when reading or parsing it raises
ErrorBody(x) ==
    IF ReadFails(x.raw) \/ LoadsFails(x.raw) THEN JObject(EmptyFcn) ELSE x.raw.val

\* lines 116-125: except urllib.error.HTTPError
HandleHTTPError(x) ==
    LET error_body == ErrorBody(x)
    IN  IF ~HasGet(error_body) THEN Raise("AttributeError")
        ELSE RaiseGlyphError(
                Get(error_body, "error",
                    "Request failed with status " \o ToString(x.status)),
                x.status,
                Get(error_body, "code", "UNKNOWN_ERROR"))

\* lines 126-131: except urllib.error.URLError
HandleURLError(x) ==
    RaiseGlyphError("Connection error: " \o x.reason, 0, "CONNECTION_ERROR")

\* the except clauses with URLError tested first
ExceptClausesSwapped == <<"URLError", "HTTPError">>

\* the except clauses of the try statement, in the order they are tested
ExceptClauses == <<"HTTPError", "URLError">>

\* the first except clause matching the raised class, 0 when none does
HandlerIndex(exc) ==
    LET hits == {i \in 1..Len(ExceptClauses) : IsSubclass(exc, ExceptClauses[i])}
    IN  IF hits = {} THEN 0 ELSE CHOOSE i \in hits : \A j \in hits : i <= j

\* lines 113-131: the try statement. An exception raised inside a handler
\* leaves the statement; the later clauses do not see it.
RequestOutcome(x) ==
    LET r == TryBody(x)
        i == IF r.kind = "raise" THEN HandlerIndex(r.exc) ELSE 0
    IN  IF i = 0 THEN r
        ELSE IF ExceptClauses[i] = "HTTPError" THEN HandleHTTPError(x)
        ELSE HandleURLError(x)

\* what the public method does with the result of _request
OpResult(o, r) == IF o = "templates" THEN TemplatesResult(r) ELSE r

\* ------------------------------------------------------------ inputs
Chars == {"a", " ", "/", "%"}

\* the strs of length at most n over Chars
Strs(n) == UNION {[1..k -> Chars] : k \in 0..n}

Slashes(n) == [i \in 1..n |-> "/"]

\* base_url arguments: a host followed by 0..MaxSlashes slashes
BaseUrls == {<<"https:", "/", "/", "x.test">> \o Slashes(n) : n \in 0..MaxSlashes}

NoArgs ==
    [data |-> None, html |-> None, url |-> None, template_id |-> None,
     intent |-> None, style |-> None, format |-> PyStr(<<"pdf">>),
     options |-> None, ttl |-> None, category |-> None]

\* keyword arguments of create: each optional field not supplied, supplied
\* empty/falsy, or supplied with content; data may hold a value json cannot
\* encode; format is the default or, with a few of the others, "png"
CreateArgs ==
    [data : {None, Some(PyDict(<<>>)), Some(PyDict(<<[k |-> "due", vt |-> "date"]>>))},
     html : {None, Some(PyStr(<<>>))},
     url : {None, Some(PyStr(<<>>))},
     template_id : {None, Some(PyStr(<<"t1">>))},
     intent : {None, Some(PyStr(<<>>))},
     style : {None, Some(PyStr(<<"x">>))},
     format : {PyStr(<<"pdf">>)},
     options : {None, Some(PyDict(<<>>))},
     ttl : {None, Some(PyInt(0))},
     category : {None}]
        \cup {[NoArgs EXCEPT !.format = PyStr(<<"png">>), !.html = h, !.ttl = t] :
                h \in {None, Some(PyStr(<<"<p>">>))}, t \in {None, Some(PyInt(60))}}

Categories == {None} \cup {Some(PyStr(s)) : s \in Strs(MaxLen)}

TemplateIds == Strs(MaxLen)

\* a JSON object a server may answer with, by the fields it holds
ObjectWith(D) ==
    [k \in D |-> CASE k = "error" -> "bad field"
                   [] k = "code" -> "INVALID_FIELD"
                   [] k = "templates" -> JArray(<<"a">>)]

JsonDocs ==
    {JObject(ObjectWith(D)) : D \in SUBSET {"error", "code"} \cup {{"templates"}}}
        \cup {JArray(<<"x">>), JNull}

\* response bodies: a JSON document, bytes that are no JSON, or a body whose
\* read breaks off
RawBodies ==
    {[read |-> "ok", text |-> "json", val |-> d] : d \in JsonDocs}
        \cup {[read |-> "ok", text |-> "garbage", val |-> JNull],
              [read |-> "fail", text |-> "garbage", val |-> JNull]}

Statuses == {200, 422, 500}

NoExchange ==
    [phase |-> "none", status |-> 0, reason |-> "",
     raw |-> [read |-> "fail", text |-> "garbage", val |-> JNull]]

\* what can happen to one request: no connection, connection lost before the
\* status line, or a response
Exchanges ==
    {[NoExchange EXCEPT !.phase = "connect", !.reason = "Connection refused"],
     [NoExchange EXCEPT !.phase = "recv", !.reason = "Connection reset by peer"]}
        \cup {[phase |-> "response", status |-> st, raw |-> b,
                reason |-> IF Is2xx(st) THEN "OK" ELSE "HTTP Error"] :
                st \in Statuses, b \in RawBodies}

\* ------------------------------------------------------------ behaviour
Init ==
    /\ arg_base_url \in BaseUrls
    /\ base_url = StripBase(arg_base_url)
    /\ api_key = "gk_key"
    /\ pc = "idle"
    /\ op = "none"
    /\ args = NoArgs
    /\ req = NoRequest
    /\ exchange = NoExchange
    /\ outcome = NoOutcome
    /\ calls = 0
    /\ requests = 0
    /\ unbuilt = 0

\* a public method runs up to the urlopen call of _request (lines 101-114),
\* or ends at line 109 when json.dumps raises
Invoke(o, a, method, path, body) ==
    /\ pc = "idle"
    /\ calls < MaxCalls
    /\ op' = o
    /\ args' = a
    /\ calls' = calls + 1
    /\ exchange' = NoExchange
    /\ IF ~body.none /\ ~BodySerializable(body.v)
       THEN /\ req' = NoRequest
            /\ outcome' = Raise("TypeError")
            /\ pc' = "done"
            /\ unbuilt' = unbuilt + 1
            /\ requests' = requests
       ELSE /\ req' = BuildRequest(method, path, body)
            /\ outcome' = NoOutcome
            /\ pc' = "urlopen"
            /\ requests' = requests + 1
            /\ unbuilt' = unbuilt
    /\ UNCHANGED <<arg_base_url, base_url, api_key>>

Create ==
    \E a \in CreateArgs : Invoke("create", a, "POST", CreatePath, Some(CreateBody(a)))

Templates ==
    \E c \in Categories :
        Invoke("templates", [NoArgs EXCEPT !.category = c], "GET", TemplatesPath(c), None)

TemplateSchema ==
    \E t \in TemplateIds :
        Invoke("template_schema", [NoArgs EXCEPT !.template_id = Some(PyStr(t))],
               "GET", SchemaPath(t), None)

\* a connection error makes _request issue the request again
CompleteWithRetry ==
    /\ pc = "urlopen"
    /\ \E x \in Exchanges :
        LET out == OpResult(op, RequestOutcome(x))
            again == out.kind = "raise" /\ out.code = "CONNECTION_ERROR"
        IN  /\ exchange' = x
            /\ outcome' = IF again THEN NoOutcome ELSE out
            /\ pc' = IF again THEN "urlopen" ELSE "done"
            /\ requests' = IF again THEN requests + 1 ELSE requests
    /\ UNCHANGED <<arg_base_url, base_url, api_key, op, args, req, calls, unbuilt>>

\* the exchange ends: urlopen returns or raises, _request runs to its end
\* (lines 114-131) and the public method returns or raises
Complete ==
    /\ pc = "urlopen"
    /\ \E x \in Exchanges :
        /\ exchange' = x
        /\ outcome' = OpResult(op, RequestOutcome(x))
    /\ pc' = "done"
    /\ UNCHANGED <<arg_base_url, base_url, api_key, op, args, req,
                   calls, requests, unbuilt>>

\* the caller has the result or the exception; the call's frame is gone
Finish ==
    /\ pc = "done"
    /\ pc' = "idle"
    /\ op' = "none"
    /\ args' = NoArgs
    /\ req' = NoRequest
    /\ exchange' = NoExchange
    /\ outcome' = NoOutcome
    /\ UNCHANGED <<arg_base_url, base_url, api_key, calls, requests, unbuilt>>

Next == Create \/ Templates \/ TemplateSchema \/ Complete \/ Finish

Spec == Init /\ [][Next]_vars

\* ============================================================ properties
\* a request object was built and handed to urlopen in the current call
Built == pc \in {"urlopen", "done"} /\ req.method # ""

HttpFailure == exchange.phase = "response" /\ exchange.status >= 400

Success == exchange.phase = "response" /\ Is2xx(exchange.status)

\* the response body arrived in full and is a JSON document
Parsed == exchange.raw.read = "ok" /\ exchange.raw.text = "json"

RaisedGlyphError(status, code, message) ==
    /\ outcome.kind = "raise"
    /\ outcome.exc = "GlyphError"
    /\ outcome.status = status
    /\ outcome.code = code
    /\ outcome.message = message

DefaultMessage == "Request failed with status " \o ToString(exchange.status)

\* ------------------------------------------------------------ C1
OptionalFields ==
    {"data", "html", "url", "template_id", "intent", "style", "options", "ttl"}

WireKey(field) == IF field = "template_id" THEN "templateId" ELSE field

\* C1: the JSON body create sends holds exactly one key per supplied optional
\* field plus "format"; a field left out is not sent, not even as null; a
\* field supplied empty ("" / {} / 0) is sent.
C1_BodyKeysExactlySupplied ==
    (op = "create" /\ Built) =>
        /\ ~req.data.none
        /\ DOMAIN req.data.v =
              {"format"} \cup {WireKey(f) : f \in {g \in OptionalFields : ~args[g].none}}
        /\ \A k \in DOMAIN req.data.v : req.data.v[k] # <<"null">>
        /\ req.data.v["format"] = <<"\"">> \o args.format.s \o <<"\"">>

C1_Witness ==
    /\ op = "create" /\ pc = "urlopen"
    /\ ~args.data.none /\ args.data.v.items = <<>>
    /\ ~args.html.none /\ args.html.v.s = <<>>
    /\ ~args.ttl.none /\ args.ttl.v.n = 0
    /\ args.url.none /\ args.options.none /\ ~args.template_id.none
    /\ DOMAIN req.data.v = {"format", "data", "html", "ttl", "templateId", "style"}

\* ------------------------------------------------------------ C2
\* the named field of the error body, when the body is a JSON object holding it
ErrorField(key, default) ==
    IF Parsed /\ exchange.raw.val.t = "object" /\ key \in DOMAIN exchange.raw.val.f
    THEN exchange.raw.val.f[key] ELSE default

\* C2: every 4xx/5xx response makes the call raise GlyphError with the HTTP
\* status, the body's "code" or "UNKNOWN_ERROR", and the body's "error" or
\* "Request failed with status S".
C2_HttpFailureRaisesServiceError ==
    (pc = "done" /\ HttpFailure) =>
        RaisedGlyphError(exchange.status,
                         ErrorField("code", "UNKNOWN_ERROR"),
                         ErrorField("error", DefaultMessage))

\* ------------------------------------------------------------ C3
\* the exchange broke at the transport level: no connection, connection lost
\* while the response was received, or while a 2xx body was read
TransportFailure ==
    \/ exchange.phase \in {"connect", "recv"}
    \/ Success /\ exchange.raw.read = "fail"

\* C3: every transport-level failure makes the call raise GlyphError with
\* status 0 and code "CONNECTION_ERROR", and nothing else.
C3_TransportFailureRaisesConnectionError ==
    (pc = "done" /\ TransportFailure) =>
        /\ outcome.kind = "raise"
        /\ outcome.exc = "GlyphError"
        /\ outcome.status = 0
        /\ outcome.code = "CONNECTION_ERROR"

\* ------------------------------------------------------------ C4
\* C4: a 4xx/5xx response whose body is JSON but no object is handled as an
\* empty error body: GlyphError with the HTTP status and the two defaults.
C4_NonObjectErrorBodyIsEmpty ==
    (pc = "done" /\ HttpFailure /\ Parsed /\ exchange.raw.val.t # "object") =>
        RaisedGlyphError(exchange.status, "UNKNOWN_ERROR", DefaultMessage)

\* ------------------------------------------------------------ C5
\* the "templates" field of the response, an empty list when it is absent
ExpectedTemplates ==
    IF "templates" \in DOMAIN exchange.raw.val.f
    THEN exchange.raw.val.f["templates"] ELSE JArray(<<>>)

\* C5 as stated: every 2xx response (its body received) makes templates return
\* the "templates" field or an empty sequence, never raise.
C5_TemplatesNeverRaisesOn2xx ==
    (pc = "done" /\ op = "templates" /\ Success /\ exchange.raw.read = "ok") =>
        /\ outcome.kind = "return"
        /\ Parsed /\ exchange.raw.val.t = "object" => outcome.value = ExpectedTemplates

\* C5 amended: every 2xx response whose body is a JSON object makes templates
\* return the "templates" field, or an empty sequence when the field is
\* absent, and not raise.
C5_TemplatesOnJsonObject ==
    (pc = "done" /\ op = "templates" /\ Success /\ Parsed
        /\ exchange.raw.val.t = "object") =>
        /\ outcome.kind = "return"
        /\ outcome.value = ExpectedTemplates

C5_Witness ==
    /\ pc = "done" /\ op = "templates" /\ Success /\ Parsed
    /\ exchange.raw.val.t = "object"
    /\ "templates" \notin DOMAIN exchange.raw.val.f
    /\ outcome.kind = "return"
    /\ outcome.value.t = "array" /\ outcome.value.items = <<>>

\* ------------------------------------------------------------ C6
\* C6: a 2xx response whose body is no JSON makes the call raise the parse
\* failure itself, neither a result nor a GlyphError; a 4xx/5xx response with
\* such a body raises GlyphError with the defaults of an empty mapping.
C6_ParseFailureOnSuccessPropagates ==
    (pc = "done" /\ exchange.phase = "response"
        /\ exchange.raw.read = "ok" /\ exchange.raw.text = "garbage") =>
        IF Is2xx(exchange.status)
        THEN /\ outcome.kind = "raise"
             /\ outcome.exc = "JSONDecodeError"
             /\ ~IsSubclass(outcome.exc, "GlyphError")
        ELSE RaisedGlyphError(exchange.status, "UNKNOWN_ERROR", DefaultMessage)

C6_Witness ==
    /\ pc = "done" /\ Success
    /\ exchange.raw.read = "ok" /\ exchange.raw.text = "garbage"
    /\ outcome.kind = "raise" /\ outcome.exc = "JSONDecodeError"

EndsInSlash(s) == s # <<>> /\ s[Len(s)] = "/"

\* the only "//" of the url is the scheme separator (tokens 2 and 3)
NoDoubledSlash(u) ==
    \A i \in 1..(Len(u) - 1) : (u[i] = "/" /\ u[i + 1] = "/") => i = 2

\* C8 as stated: with a base_url ending in a slash, every operation with every
\* argument issues its request against the stripped base_url plus the path,
\* with no doubled slash after the scheme separator.
C8_NoDoubledSlash ==
    (Built /\ EndsInSlash(arg_base_url)) =>
        /\ SubSeq(req.url, 1, 6) = <<"https:", "/", "/", "x.test", "/", "v1">>
        /\ NoDoubledSlash(req.url)

\* C8 amended: the same, for every argument except an empty template_id
\* (template_schema("") requests /v1/templates//schema).
C8_NoDoubledSlashNonEmptyId ==
    (Built /\ EndsInSlash(arg_base_url)) =>
        /\ SubSeq(req.url, 1, 6) = <<"https:", "/", "/", "x.test", "/", "v1">>
        /\ ~(op = "template_schema" /\ args.template_id.v.s = <<>>) =>
              NoDoubledSlash(req.url)

C8_Witness ==
    /\ Built /\ op = "template_schema"
    /\ arg_base_url = <<"https:", "/", "/", "x.test", "/", "/">>
    /\ args.template_id.v.s = <<"/", "/">>
    /\ NoDoubledSlash(req.url)

\* ------------------------------------------------------------ C9
RECURSIVE Unquote(_)
\* percent-decoding, the inverse the server applies to a path segment
Unquote(s) ==
    IF s = <<>> THEN <<>>
    ELSE IF s[1] = "%" /\ Len(s) >= 3
    THEN <<CASE SubSeq(s, 2, 3) = <<"2", "0">> -> " "
             [] SubSeq(s, 2, 3) = <<"2", "F">> -> "/"
             [] SubSeq(s, 2, 3) = <<"2", "5">> -> "%"
             [] OTHER -> "?">> \o Unquote(SubSeq(s, 4, Len(s)))
    ELSE <<s[1]>> \o Unquote(Tail(s))

Count(s, ch) == Cardinality({i \in 1..Len(s) : s[i] = ch})

\* C9: template_schema issues GET /v1/templates/<encoded_id>/schema, where
\* encoded_id decodes to template_id and holds no literal space and no slash,
\* so the path has exactly four segments.
C9_SchemaPathEncoded ==
    (op = "template_schema" /\ Built) =>
        LET path == SubSeq(req.url, Len(base_url) + 1, Len(req.url))
            enc == SubSeq(path, 6, Len(path) - 2)
        IN  /\ req.method = "GET"
            /\ req.data.none
            /\ SubSeq(path, 1, 5) = <<"/", "v1", "/", "templates", "/">>
            /\ SubSeq(path, Len(path) - 1, Len(path)) = <<"/", "schema">>
            /\ Count(enc, " ") = 0
            /\ Count(enc, "/") = 0
            /\ Count(path, "/") = 4
            /\ Unquote(enc) = args.template_id.v.s

C9_Witness ==
    /\ op = "template_schema" /\ pc = "urlopen"
    /\ args.template_id.v.s = <<" ", "/">>
    /\ req.url = <<"https:", "/", "/", "x.test", "/", "v1", "/", "templates", "/",
                   "%", "2", "0", "%", "2", "F", "/", "schema">>

\* ------------------------------------------------------------ C10
\* C10: a GlyphError has status 0 exactly when no HTTP response was received;
\* an HTTP error response is reported with its own status, never through the
\* connection-error branch.
C10_StatusZeroIffTransport ==
    (pc = "done" /\ outcome.kind = "raise" /\ outcome.exc = "GlyphError") =>
        /\ outcome.status = 0 <=> exchange.phase # "response"
        /\ outcome.code = "CONNECTION_ERROR" <=> exchange.phase # "response"
        /\ exchange.phase = "response" => outcome.status = exchange.status

C10_Witness ==
    /\ pc = "done" /\ HttpFailure
    /\ outcome.kind = "raise" /\ outcome.exc = "GlyphError"
    /\ outcome.status = exchange.status /\ outcome.status # 0

====
